---- MODULE Spec2Model ----
(***************************************************************************)
(* gophermart: the order ledger (tables orders, balance, withdrawal), the  *)
(* storage operations AddOrder and Withdraw run by concurrent HTTP         *)
(* handlers, and the accrual updater (Accrual.updateOrders / update) that  *)
(* polls the accrual service once per tick.                                *)
(*                                                                         *)
(* Storage is PostgreSQL at READ COMMITTED (pgx Begin, no isolation level  *)
(* given): a statement reads the rows committed when it starts; an INSERT  *)
(* of a key that an open transaction has inserted, and an UPDATE of a row  *)
(* that an open transaction has updated, wait for that transaction to end  *)
(* and then run on what it left; UNIQUE and CHECK constraints abort the    *)
(* statement.  The writing statements of one transaction up to its Commit  *)
(* are therefore one step, taken at the commit: nothing can read or change *)
(* in between what they wrote or tested.  A SELECT takes no lock, so a     *)
(* SELECT followed by writes in the same transaction is two steps.         *)
(* Amounts are counted in the unit the NUMERIC(15,2) columns keep.         *)
(***************************************************************************)
EXTENDS Integers, Sequences, FiniteSets, TLC

Users == {"u1", "u2"}
\* the values uuid.New() gives to the users that register later
NewIds == {"u3", "u4", "u5"}
\* the logins of registration requests
Logins == {"alice", "bob", "carol", "dave"}
\* order numbers / withdrawal references that pass isCorrectOrderNum
Numbers == {"18", "26"}
\* the HTTP requests served, each by a goroutine of its own, in arrival order
Procs == {"r1", "r2", "r3"}
Arrival == <<"r1", "r2", "r3">>

MaxAccrual == 1
MaxSum == 1
\* largest Retry-After the accrual service sends, and the last second of the clock
MaxRetryAfter == 2
MaxTime == 6
\* largest balance AddBalance is followed to
MaxBalance == 1

\* resty.New().SetRetryAfter(retryFn).SetRetryCount(3)
RetryCount == 3
\* the longest wait between two attempts of a client made by resty.New()
MaxWaitTime == 2
\* time.NewTicker(time.Second)
TickPeriod == 1

\* longest request body of the bounded check of isCorrectOrderNum
MaxLen == 2
\* the byte '0' and the width of a byte
ByteZero == 48
ByteRange == 256
\* http.StatusUnprocessableEntity
StatusUnprocessableEntity == "422"

StatusNew == "NEW"
StatusInvalid == "INVALID"
StatusProcessing == "PROCESSING"
StatusProcessed == "PROCESSED"
StatusRegistered == "REGISTERED"

ErrNotEnoughBalance == "ErrNotEnoughBalance"
ErrDuplicateOrder == "ErrDuplicateOrder"
ErrOrderAlreadyPlaced == "ErrOrderAlreadyPlaced"
ErrDuplicateUser == "ErrDuplicateUser"
\* *pgconn.PgError 23505 (unique_violation) and 23514 (check_violation, with the
\* constraint it names), and any other driver error; Withdraw returns them as is
PgUniqueViolation == "PgUniqueViolation"
PgCheckSum == "PgCheckViolation(withdrawal_sum_check)"
PgCheckBalance == "PgCheckViolation(balance_check)"
StorageError == "StorageError"

\* what the accrual service may put in the status field of a 200 answer; a body
\* without the field decodes to the empty string
ExtStatuses ==
    {StatusRegistered, StatusProcessing, StatusInvalid, StatusProcessed, "UNKNOWN",
     ""}
Accruals == 0 .. MaxAccrual
\* the sum of a withdrawal request is an unvalidated float64
Sums == -1 .. MaxSum

VARIABLES
    orders,      \* table orders: rows [num, user, status, accrual] in insertion order
    balance,     \* table balance: user -> [current, withdrawn]
    withdrawal,  \* table withdrawal: rows [num, user, sum] in insertion order
    pc,          \* request -> position in AddOrder / Withdraw
    loc,         \* request -> the call it makes, its arguments, info.Current
    res,         \* request -> error value the storage call returned
    cancelled,   \* u.ctx is done (Accrual.Stop)
    tpc,         \* position of the updater goroutine
    torders,     \* update(): orders
    tinfo,       \* update(): ordersInfo
    ti,          \* update(): index of the apply loop
    tbal,        \* update(): ordersWithBalanceUpdate
    tasked,      \* update(): index -> order number its lookup goroutine was started with
    tfailed,     \* history: a storage write of the last tick returned an error
    twrote,      \* history: a write of the last tick changed a stored row
    credited,    \* history: order number -> times its accrual was added to a balance
    creditSum,   \* history: user -> total committed credits
    debitSum,    \* history: user -> total committed debits
    raced,       \* history: a Withdraw committed over a credit made after its SELECT
    body,        \* the order number / reference the requests carry, as bytes
    healthy,     \* storage and accrual service have stopped failing
    now,         \* time in seconds
    call,        \* the getOrderStatus call of the polled order inside the resty client
    users,       \* table users: rows [id, login] in insertion order
    balanceRows  \* table balance row by row: [user, current, withdrawn]

vars == <<orders, balance, withdrawal, pc, loc, res, cancelled, tpc, torders,
          tinfo, ti, tbal, tasked, tfailed, twrote, credited, creditSum, debitSum,
          raced, body, healthy, now, call, users, balanceRows>>

dbVars == <<orders, balance, withdrawal>>
procVars == <<pc, loc, res>>
tickVars == <<tpc, torders, tinfo, ti, tbal, tasked, tfailed, twrote>>
histVars == <<credited, creditSum, debitSum, raced>>
\* what the ledger operations do not touch: the request body before validation,
\* the health of the environment, the clock, the HTTP client and the registrations
regVars == <<users, balanceRows>>
sideVars == <<body, healthy, now, call, regVars>>

NoLoc == [op |-> "", user |-> "", num |-> "", sum |-> 0, cur |-> 0]

\* requests start in arrival order
MayStart(p) ==
    \A i \in DOMAIN Arrival \ {1} : Arrival[i] = p => pc[Arrival[i - 1]] # "new"

\* no lookup in flight: the updater waits in its select
NoCall == [state |-> "idle", attempt |-> 0, wake |-> 0, ticked |-> 0,
           resp |-> "", notBefore |-> 0]

Pending == [status |-> "pending", accrual |-> 0]
Nil == [status |-> "nil", accrual |-> 0]
\* a lookup whose request.Get(url) is blocked on a service that does not answer
Hung == [status |-> "hung", accrual |-> 0]

\* the users that have registered before the requests arrive
Registered == <<[id |-> "u1", login |-> "alice"], [id |-> "u2", login |-> "bob"]>>

\* the tables after the users registered, no request served yet, the updater
\* goroutine in its select
InitLedger ==
    /\ orders = <<>>
    /\ balance = [u \in Users |-> [current |-> 0, withdrawn |-> 0]]
    /\ withdrawal = <<>>
    /\ pc = [p \in Procs |-> "new"]
    /\ loc = [p \in Procs |-> NoLoc]
    /\ res = [p \in Procs |-> "none"]
    /\ cancelled = FALSE
    /\ tpc = "idle"
    /\ torders = <<>>
    /\ tinfo = <<>>
    /\ ti = 0
    /\ tbal = <<>>
    /\ tasked = <<>>
    /\ tfailed = FALSE
    /\ twrote = FALSE
    /\ credited = [n \in Numbers |-> 0]
    /\ creditSum = [u \in Users |-> 0]
    /\ debitSum = [u \in Users |-> 0]
    /\ raced = FALSE
    /\ healthy = FALSE
    /\ now = 0
    /\ call = NoCall
    /\ users = Registered
    /\ balanceRows = [i \in DOMAIN Registered |->
            [user |-> Registered[i].id, current |-> 0, withdrawn |-> 0]]

Init == InitLedger /\ body = <<>>

----------------------------------------------------------------------------
(* Schema constraints                                                      *)

\* the orders table without its UNIQUE constraint
OrdersUniqueOff(rows, n) == FALSE

\* orders.order_number VARCHAR NOT NULL UNIQUE
OrdersUniqueViolation(rows, n) == \E i \in DOMAIN rows : rows[i].num = n

\* the withdrawal table without its UNIQUE constraint
WithdrawalUniqueOff(rows, n) == FALSE

\* withdrawal.order_number VARCHAR NOT NULL UNIQUE
WithdrawalUniqueViolation(rows, n) == \E i \in DOMAIN rows : rows[i].num = n

\* withdrawal.sum CHECK (sum >= 0.0)
WithdrawalCheck(s) == s >= 0

\* the balance table without its CHECK constraints
BalanceCheckOff(row) == TRUE

\* balance: CHECK (current >= 0.00), CHECK (withdrawn >= 0.00)
BalanceCheck(row) == row.current >= 0 /\ row.withdrawn >= 0

\* INSERT INTO orders (id, user_id, order_number): status and accrual by DEFAULT
NewOrderRow(u, n) == [num |-> n, user |-> u, status |-> StatusNew, accrual |-> 0]

\* UPDATE orders SET status=$1, accrual=$2 WHERE order_number=$3
UpdateOrderRows(rows, o) ==
    [i \in DOMAIN rows |->
        IF rows[i].num = o.num
        THEN [rows[i] EXCEPT !.status = o.status, !.accrual = o.accrual]
        ELSE rows[i]]

\* the storage call of request p returns r to its handler
Return(p, r) ==
    /\ pc' = [pc EXCEPT ![p] = "done"]
    /\ loc' = [loc EXCEPT ![p] = NoLoc]
    /\ res' = [res EXCEPT ![p] = r]

----------------------------------------------------------------------------
(* pgxStorage.AddOrder                                                     *)

\* AddOrder(ctx, userID, orderNumber) up to the result of the INSERT: Begin,
\* INSERT INTO orders and, when the INSERT succeeded, tx.Commit
AddOrderInsert(p, u, n, F) ==
    /\ pc[p] = "new"
    /\ MayStart(p)
    /\ \E fault \in F :
        IF fault
        THEN Return(p, StorageError) /\ UNCHANGED orders
        ELSE IF OrdersUniqueViolation(orders, n)
        THEN /\ pc' = [pc EXCEPT ![p] = "ao_check"]
             /\ loc' = [loc EXCEPT ![p] =
                    [op |-> "AddOrder", user |-> u, num |-> n, sum |-> 0, cur |-> 0]]
             /\ UNCHANGED <<res, orders>>
        ELSE /\ Return(p, "ok")
             /\ orders' = Append(orders, NewOrderRow(u, n))
    /\ UNCHANGED <<balance, withdrawal, cancelled, tickVars, histVars, sideVars>>

\* checkDuplicateOrder: SELECT user_id FROM orders WHERE order_number = $1
checkDuplicateOrder(rows, n, u) ==
    LET found == {i \in DOMAIN rows : rows[i].num = n}
    IN  IF found # {} /\ rows[CHOOSE i \in found : \A j \in found : i <= j].user = u
        THEN ErrOrderAlreadyPlaced
        ELSE ErrDuplicateOrder

\* the call of checkDuplicateOrder after a unique violation
AddOrderCheck(p, F) ==
    /\ pc[p] = "ao_check"
    /\ \E fault \in F :
        Return(p, IF fault THEN StorageError
                  ELSE checkDuplicateOrder(orders, loc[p].num, loc[p].user))
    /\ UNCHANGED <<dbVars, cancelled, tickVars, histVars, sideVars>>

----------------------------------------------------------------------------
(* pgxStorage.Withdraw                                                     *)

\* Withdraw without its balance test
NotEnoughOff(cur, s) == FALSE

\* if info.Current-sum < 0 { return ErrNotEnoughBalance }
NotEnough(cur, s) == cur - s < 0

\* the UPDATE written as SET current = <info.Current - sum>: a stale write
DebitRowStale(row, s, cur) ==
    [current |-> cur - s, withdrawn |-> row.withdrawn + s]

\* the UPDATE without "withdrawn = withdrawn + $1"
DebitRowCurrentOnly(row, s, cur) ==
    [current |-> row.current - s, withdrawn |-> row.withdrawn]

\* UPDATE balance SET current = current - $1, withdrawn = withdrawn + $1:
\* computed from the row as it is when the UPDATE runs, not from info.Current
\* (cur) that the SELECT of the same transaction scanned
DebitRow(row, s, cur) ==
    [current |-> row.current - s, withdrawn |-> row.withdrawn + s]

\* Withdraw(ctx, userID, order, sum) up to the balance test: Begin,
\* SELECT current, withdrawn FROM balance, if info.Current-sum < 0
WithdrawSelect(p, u, n, s, F) ==
    /\ pc[p] = "new"
    /\ MayStart(p)
    /\ \E fault \in F :
        IF fault
        THEN Return(p, StorageError)
        ELSE IF NotEnough(balance[u].current, s)
        THEN Return(p, ErrNotEnoughBalance)
        ELSE /\ pc' = [pc EXCEPT ![p] = "w_write"]
             /\ loc' = [loc EXCEPT ![p] =
                    [op |-> "Withdraw", user |-> u, num |-> n, sum |-> s,
                     cur |-> balance[u].current]]
             /\ UNCHANGED res
    /\ UNCHANGED <<dbVars, cancelled, tickVars, histVars, sideVars>>

\* INSERT INTO withdrawal, UPDATE balance, tx.Commit
WithdrawWrite(p, F) ==
    /\ pc[p] = "w_write"
    /\ LET u == loc[p].user
           s == loc[p].sum
           row == DebitRow(balance[u], s, loc[p].cur)
       IN  \E fault \in F :
            IF fault \/ ~WithdrawalCheck(s)
                     \/ WithdrawalUniqueViolation(withdrawal, loc[p].num)
                     \/ ~BalanceCheck(row)
            THEN /\ Return(p, IF fault THEN StorageError
                              ELSE IF ~WithdrawalCheck(s) THEN PgCheckSum
                              ELSE IF WithdrawalUniqueViolation(withdrawal, loc[p].num)
                              THEN PgUniqueViolation
                              ELSE PgCheckBalance)
                 /\ UNCHANGED <<balance, withdrawal, debitSum, raced>>
            ELSE /\ Return(p, "ok")
                 /\ balance' = [balance EXCEPT ![u] = row]
                 /\ withdrawal' = Append(withdrawal,
                        [num |-> loc[p].num, user |-> u, sum |-> s])
                 /\ debitSum' = [debitSum EXCEPT ![u] = @ + s]
                 /\ raced' = (raced \/ balance[u].current > loc[p].cur)
    /\ UNCHANGED <<orders, cancelled, tickVars, credited, creditSum, sideVars>>

----------------------------------------------------------------------------
(* Accrual.updateOrders / Accrual.update: the updater goroutine            *)

\* the SELECT without its WHERE clause
GetUnfinishedOrdersAll(rows) == rows

\* the SELECT with WHERE status = 'NEW'
GetUnfinishedOrdersNew(rows) == SelectSeq(rows, LAMBDA r : r.status = StatusNew)

\* SELECT ... FROM orders WHERE status IN ('NEW', 'PROCESSING')
GetUnfinishedOrders(rows) ==
    SelectSeq(rows, LAMBDA r : r.status \in {StatusNew, StatusProcessing})

\* the switch with a default case that stores what the service said
TranslateDefault(o, info) ==
    CASE info.status \in {StatusRegistered, StatusProcessing} ->
            [o EXCEPT !.status = StatusProcessing]
      [] info.status = StatusProcessed ->
            [o EXCEPT !.status = StatusProcessed, !.accrual = info.accrual]
      [] OTHER -> [o EXCEPT !.status = info.status]

\* the switch without "orders[i].Accrual = info.Accrual"
TranslateNoAccrual(o, info) ==
    CASE info.status \in {StatusRegistered, StatusProcessing} ->
            [o EXCEPT !.status = StatusProcessing]
      [] info.status = StatusInvalid ->
            [o EXCEPT !.status = StatusInvalid]
      [] info.status = StatusProcessed ->
            [o EXCEPT !.status = StatusProcessed]
      [] OTHER -> o

\* the switch with REGISTERED taken for "not yet picked up": back to NEW
TranslateRegisteredNew(o, info) ==
    CASE info.status = StatusRegistered -> [o EXCEPT !.status = StatusNew]
      [] info.status = StatusProcessing -> [o EXCEPT !.status = StatusProcessing]
      [] info.status = StatusInvalid -> [o EXCEPT !.status = StatusInvalid]
      [] info.status = StatusProcessed ->
            [o EXCEPT !.status = StatusProcessed, !.accrual = info.accrual]
      [] OTHER -> o

\* the switch storing info.Accrual whatever the status
TranslateAnyAccrual(o, info) ==
    CASE info.status \in {StatusRegistered, StatusProcessing} ->
            [o EXCEPT !.status = StatusProcessing, !.accrual = info.accrual]
      [] info.status = StatusInvalid ->
            [o EXCEPT !.status = StatusInvalid, !.accrual = info.accrual]
      [] info.status = StatusProcessed ->
            [o EXCEPT !.status = StatusProcessed, !.accrual = info.accrual]
      [] OTHER -> o

\* the switch on info.Status: orders[i] after it
Translate(o, info) ==
    CASE info.status \in {StatusRegistered, StatusProcessing} ->
            [o EXCEPT !.status = StatusProcessing]
      [] info.status = StatusInvalid ->
            [o EXCEPT !.status = StatusInvalid]
      [] info.status = StatusProcessed ->
            [o EXCEPT !.status = StatusProcessed, !.accrual = info.accrual]
      [] OTHER -> o

\* a goroutine started with the loop variable captured instead of passed
LookupArgLast(os, i) == os[Len(os)].num

\* go func(index int, o storage.Order) {...}(i, o): the order number that
\* goroutine index looks up
LookupArg(os, i) == os[i].num

\* updateOrders returning when update() could not read the orders
TickGetFatal(F) ==
    /\ tpc = "idle"
    /\ \E fault \in F :
        LET got == GetUnfinishedOrders(orders)
        IN  IF fault
            THEN /\ tpc' = "stopped"
                 /\ UNCHANGED <<torders, tinfo, ti, tbal, tasked, tfailed, twrote>>
            ELSE IF cancelled \/ Len(got) = 0
            THEN UNCHANGED tickVars
            ELSE /\ tpc' = "lookup"
                 /\ torders' = got
                 /\ tinfo' = [i \in DOMAIN got |-> Pending]
                 /\ tasked' = [i \in DOMAIN got |-> LookupArg(got, i)]
                 /\ tfailed' = FALSE
                 /\ twrote' = FALSE
                 /\ UNCHANGED <<ti, tbal>>
    /\ UNCHANGED <<dbVars, procVars, cancelled, histVars, sideVars>>

\* update() reading the orders with context.Background() instead of u.ctx
TickGetBackground(F) ==
    /\ tpc = "idle"
    /\ \E fault \in F :
        LET got == GetUnfinishedOrders(orders)
        IN  IF fault \/ Len(got) = 0
            THEN UNCHANGED tickVars
            ELSE /\ tpc' = "lookup"
                 /\ torders' = got
                 /\ tinfo' = [i \in DOMAIN got |-> Pending]
                 /\ tasked' = [i \in DOMAIN got |-> LookupArg(got, i)]
                 /\ tfailed' = FALSE
                 /\ twrote' = FALSE
                 /\ UNCHANGED <<ti, tbal>>
    /\ UNCHANGED <<dbVars, procVars, cancelled, histVars, sideVars>>

\* ticker.C fires: update() starts with GetUnfinishedOrders(u.ctx) and, when it
\* got orders, starts one lookup goroutine per order
TickGet(F) ==
    /\ tpc = "idle"
    /\ \E fault \in F :
        LET got == GetUnfinishedOrders(orders)
        IN  IF fault \/ cancelled \/ Len(got) = 0
            THEN UNCHANGED tickVars
            ELSE /\ tpc' = "lookup"
                 /\ torders' = got
                 /\ tinfo' = [i \in DOMAIN got |-> Pending]
                 /\ tasked' = [i \in DOMAIN got |-> LookupArg(got, i)]
                 /\ tfailed' = FALSE
                 /\ twrote' = FALSE
                 /\ UNCHANGED <<ti, tbal>>
    /\ UNCHANGED <<dbVars, procVars, cancelled, histVars, sideVars>>

\* what getOrderStatus can return for one order: nil with an error (transport
\* error, status other than 200, malformed body, cancelled context) or the
\* decoded orderInfo
LookupResults ==
    {Nil} \cup [status : ExtStatuses \ {StatusProcessed}, accrual : {0}]
          \cup [status : {StatusProcessed}, accrual : Accruals]

\* every orderInfo a 200 answer can decode to: the body may carry an accrual
\* with any status
OrderInfos == {Nil} \cup [status : ExtStatuses, accrual : Accruals]

\* goroutine index i finishes with one of the results R; the last one to finish
\* releases wg.Wait()
LookupReturns(i, R) ==
    /\ tpc = "lookup"
    /\ i \in DOMAIN tinfo
    /\ tinfo[i] = Pending
    /\ \E r \in R :
        /\ cancelled => r = Nil
        /\ tinfo' = [tinfo EXCEPT ![i] = r]
    /\ IF \A j \in DOMAIN tinfo \ {i} : tinfo[j] \notin {Pending, Hung}
       THEN tpc' = "apply" /\ ti' = 1
       ELSE UNCHANGED <<tpc, ti>>
    /\ UNCHANGED <<dbVars, procVars, cancelled, torders, tbal, tasked, tfailed,
                   twrote, histVars, sideVars>>

Lookup(i) == LookupReturns(i, LookupResults)

\* the same with an answer that may carry an accrual with any status
LookupAny(i) == LookupReturns(i, OrderInfos)

\* one iteration of "for i, info := range ordersInfo", with its UpdateOrder call
Apply(F) ==
    /\ tpc = "apply"
    /\ IF tinfo[ti] = Nil
       THEN UNCHANGED <<orders, torders, tbal, tfailed, twrote>>
       ELSE LET o == Translate(torders[ti], tinfo[ti])
            IN  /\ torders' = [torders EXCEPT ![ti] = o]
                /\ tbal' = IF tinfo[ti].status = StatusProcessed
                           THEN Append(tbal, o) ELSE tbal
                /\ \E fault \in F :
                    IF fault \/ cancelled
                    THEN tfailed' = TRUE /\ UNCHANGED <<orders, twrote>>
                    ELSE /\ orders' = UpdateOrderRows(orders, o)
                         /\ twrote' = (twrote \/ orders' # orders)
                         /\ UNCHANGED tfailed
    /\ IF ti = Len(torders)
       THEN tpc' = "ubfo" /\ UNCHANGED ti
       ELSE ti' = ti + 1 /\ UNCHANGED tpc
    /\ UNCHANGED <<balance, withdrawal, procVars, cancelled, tinfo, tasked,
                   histVars, sideVars>>

RECURSIVE UpdateAll(_, _)
\* the loop of UPDATE orders statements of UpdateBalanceFromOrders
UpdateAll(rows, os) ==
    IF os = <<>> THEN rows ELSE UpdateAll(UpdateOrderRows(rows, Head(os)), Tail(os))

RECURSIVE totalAmount(_, _)
\* totalAmount[o.UserID] += o.Accrual over the batch
totalAmount(os, u) ==
    IF os = <<>> THEN 0
    ELSE (IF Head(os).user = u THEN Head(os).accrual ELSE 0) + totalAmount(Tail(os), u)

\* users that have a key in the map totalAmount
Credited(os) == {os[i].user : i \in DOMAIN os}

\* UPDATE balance SET current = current + $1 WHERE user_id = $2
CreditRow(row, amount) == [row EXCEPT !.current = @ + amount]

\* how often order number n occurs in the batch
Occurs(os, n) == Cardinality({i \in DOMAIN os : os[i].num = n})

\* UpdateBalanceFromOrders(u.ctx, ordersWithBalanceUpdate): one transaction;
\* then update() returns to the select of updateOrders
UpdateBalanceFromOrders(F) ==
    /\ tpc = "ubfo"
    /\ tpc' = "idle"
    /\ torders' = <<>>
    /\ tinfo' = <<>>
    /\ ti' = 0
    /\ tbal' = <<>>
    /\ tasked' = <<>>
    /\ IF Len(tbal) = 0
       THEN UNCHANGED <<orders, balance, tfailed, twrote, credited, creditSum>>
       ELSE \E fault \in F :
            LET newBalance == [u \in Users |->
                    IF u \in Credited(tbal)
                    THEN CreditRow(balance[u], totalAmount(tbal, u))
                    ELSE balance[u]]
            IN  IF fault \/ cancelled \/ \E u \in Users : ~BalanceCheck(newBalance[u])
                THEN /\ tfailed' = TRUE
                     /\ UNCHANGED <<orders, balance, twrote, credited, creditSum>>
                ELSE /\ orders' = UpdateAll(orders, tbal)
                     /\ balance' = newBalance
                     /\ twrote' = (twrote \/ orders' # orders \/ balance' # balance)
                     /\ credited' = [n \in Numbers |-> credited[n] + Occurs(tbal, n)]
                     /\ creditSum' = [u \in Users |->
                            creditSum[u] + totalAmount(tbal, u)]
                     /\ UNCHANGED tfailed
    /\ UNCHANGED <<withdrawal, procVars, cancelled, debitSum, raced, sideVars>>

\* Accrual.Stop: u.ctxCancel()
Stop ==
    /\ ~cancelled
    /\ cancelled' = TRUE
    /\ UNCHANGED <<dbVars, procVars, tickVars, histVars, sideVars>>

\* case <-u.ctx.Done(): return
LoopExit ==
    /\ tpc = "idle"
    /\ cancelled
    /\ tpc' = "stopped"
    /\ UNCHANGED <<dbVars, procVars, cancelled, torders, tinfo, ti, tbal, tasked,
                   tfailed, twrote, histVars, sideVars>>

----------------------------------------------------------------------------
(* The server while main has not reached its deferred accrual.Stop()       *)

Next ==
    \/ \E p \in Procs, u \in Users, n \in Numbers : AddOrderInsert(p, u, n, BOOLEAN)
    \/ \E p \in Procs : AddOrderCheck(p, BOOLEAN)
    \/ \E p \in Procs, u \in Users, n \in Numbers, s \in Sums :
            WithdrawSelect(p, u, n, s, BOOLEAN)
    \/ \E p \in Procs : WithdrawWrite(p, BOOLEAN)
    \/ TickGet(BOOLEAN)
    \/ \E i \in 1 .. Cardinality(Numbers) : Lookup(i)
    \/ Apply(BOOLEAN)
    \/ UpdateBalanceFromOrders(BOOLEAN)

Spec == Init /\ [][Next]_vars

\* the same program with shutdown: Stop may be called at any moment
NextStop == Next \/ Stop \/ LoopExit

SpecStop == Init /\ [][NextStop]_vars

----------------------------------------------------------------------------
(* The updater goroutine from NewAccrual to Stop, with the admissions that *)
(* give it work (an admission that fails with a driver error gives none    *)
(* and is left out).  The goroutine is scheduled again and again, its      *)
(* ticker keeps firing, GetUnfinishedOrders does not fail forever, and a   *)
(* lookup returns, with an answer or an error.                             *)

NextLoop ==
    \/ \E p \in Procs, u \in Users, n \in Numbers : AddOrderInsert(p, u, n, {FALSE})
    \/ \E p \in Procs : AddOrderCheck(p, {FALSE})
    \/ TickGet(BOOLEAN)
    \/ \E i \in 1 .. Cardinality(Numbers) : Lookup(i)
    \/ Apply(BOOLEAN)
    \/ UpdateBalanceFromOrders(BOOLEAN)
    \/ Stop
    \/ LoopExit

LoopFairness ==
    /\ WF_vars(TickGet(BOOLEAN))
    /\ WF_vars(\E i \in 1 .. Cardinality(Numbers) : Lookup(i))
    /\ WF_vars(Apply(BOOLEAN))
    /\ WF_vars(UpdateBalanceFromOrders(BOOLEAN))
    /\ WF_vars(LoopExit)

SpecLoop == Init /\ [][NextLoop]_vars /\ LoopFairness

----------------------------------------------------------------------------
(* The loop without a cancellation, in an environment that recovers: until *)
(* it has healed, the storage calls of a tick may fail and the accrual     *)
(* service may answer anything; from then on the storage calls succeed and *)
(* the service answers INVALID or PROCESSED.                               *)

\* the outcomes of a storage call of the updater: no error once healed
Faults == IF healthy THEN {FALSE} ELSE BOOLEAN

\* the database and the accrual service recover
Heal ==
    /\ ~healthy
    /\ healthy' = TRUE
    /\ UNCHANGED <<dbVars, procVars, cancelled, tickVars, histVars, body, now, call, regVars>>

\* a lookup goroutine finishes; a healed service has settled the order
LookupSettled(i) ==
    /\ Lookup(i)
    /\ healthy => tinfo'[i].status \in {StatusInvalid, StatusProcessed}

NextConverge ==
    \/ \E p \in Procs, u \in Users, n \in Numbers : AddOrderInsert(p, u, n, {FALSE})
    \/ \E p \in Procs : AddOrderCheck(p, {FALSE})
    \/ Heal
    \/ TickGet(Faults)
    \/ \E i \in 1 .. Cardinality(Numbers) : LookupSettled(i)
    \/ Apply(Faults)
    \/ UpdateBalanceFromOrders(Faults)

\* the ticker keeps firing and every step of update() returns; the environment
\* recovers
ConvergeFairness ==
    /\ WF_vars(Heal)
    /\ WF_vars(TickGet(Faults))
    /\ WF_vars(\E i \in 1 .. Cardinality(Numbers) : LookupSettled(i))
    /\ WF_vars(Apply(Faults))
    /\ WF_vars(UpdateBalanceFromOrders(Faults))

SpecConverge == Init /\ [][NextConverge]_vars /\ ConvergeFairness

----------------------------------------------------------------------------
(* The loop without a cancellation, with an accrual service that may leave *)
(* a request unanswered.  The client is resty.New() without SetTimeout and *)
(* the request carries u.ctx, which has no deadline: request.Get returns   *)
(* when the service answers, when the connection fails, or at Stop.        *)

\* the service has taken the request of goroutine index i and never answers
LookupNeverAnswers(i) ==
    /\ tpc = "lookup"
    /\ i \in DOMAIN tinfo
    /\ tinfo[i] = Pending
    /\ ~cancelled
    /\ tinfo' = [tinfo EXCEPT ![i] = Hung]
    /\ UNCHANGED <<dbVars, procVars, cancelled, tpc, torders, ti, tbal, tasked,
                   tfailed, twrote, histVars, sideVars>>

NextHang ==
    \/ \E p \in Procs, u \in Users, n \in Numbers : AddOrderInsert(p, u, n, {FALSE})
    \/ \E p \in Procs : AddOrderCheck(p, {FALSE})
    \/ TickGet(BOOLEAN)
    \/ \E i \in 1 .. Cardinality(Numbers) : Lookup(i)
    \/ \E i \in 1 .. Cardinality(Numbers) : LookupNeverAnswers(i)
    \/ Apply(BOOLEAN)
    \/ UpdateBalanceFromOrders(BOOLEAN)

\* the ticker keeps firing, the goroutines are scheduled, a request that the
\* service answers or refuses returns, and the storage calls return
HangFairness ==
    /\ WF_vars(TickGet(BOOLEAN))
    /\ WF_vars(\E i \in 1 .. Cardinality(Numbers) : Lookup(i))
    /\ WF_vars(Apply(BOOLEAN))
    /\ WF_vars(UpdateBalanceFromOrders(BOOLEAN))

SpecHang == Init /\ [][NextHang]_vars /\ HangFairness

----------------------------------------------------------------------------
(* The updater with an accrual service that sends an accrual with any      *)
(* status, and the admissions that give it work.                           *)

NextAccrual ==
    \/ \E p \in Procs, u \in Users, n \in Numbers : AddOrderInsert(p, u, n, {FALSE})
    \/ \E p \in Procs : AddOrderCheck(p, {FALSE})
    \/ TickGet(BOOLEAN)
    \/ \E i \in 1 .. Cardinality(Numbers) : LookupAny(i)
    \/ Apply(BOOLEAN)
    \/ UpdateBalanceFromOrders(BOOLEAN)

SpecAccrual == Init /\ [][NextAccrual]_vars

----------------------------------------------------------------------------
(* pgxStorage.AddUser, called by AuthServer.registerUser, and AddBalance:  *)
(* the statements on the tables users and balance, row by row.  Both       *)
(* INSERTs of AddUser are in one transaction; an INSERT of a login that an *)
(* open transaction has inserted waits for that transaction to end, so the *)
(* calls take effect one after the other, each at its commit.              *)

\* where a call of AddUser can get a driver error: nowhere, at Begin, at the
\* INSERT INTO users, at the INSERT INTO balance, at Commit
AddUserFaults == {"none", "begin", "users", "balance", "commit"}

\* users.login VARCHAR(255) UNIQUE NOT NULL
UsersUniqueViolation(us, login) == \E i \in DOMAIN us : us[i].login = login

\* what AddUser returns
AddUserResult(us, login, fault) ==
    IF fault \in {"begin", "users"} THEN StorageError
    ELSE IF UsersUniqueViolation(us, login) THEN ErrDuplicateUser
    ELSE IF fault \in {"balance", "commit"} THEN StorageError
    ELSE "ok"

\* AddUser with each INSERT committed by itself (p.dbConn.Exec)
AddUserTablesNoTx(us, bs, id, login, fault) ==
    IF fault \in {"begin", "users"} \/ UsersUniqueViolation(us, login)
    THEN <<us, bs>>
    ELSE IF fault = "balance"
    THEN <<Append(us, [id |-> id, login |-> login]), bs>>
    ELSE <<Append(us, [id |-> id, login |-> login]),
           Append(bs, [user |-> id, current |-> 0, withdrawn |-> 0])>>

\* the tables users and balance after a call of AddUser: both rows at the
\* Commit, none when the call returns an error (defer tx.Rollback)
AddUserTables(us, bs, id, login, fault) ==
    IF AddUserResult(us, login, fault) = "ok"
    THEN <<Append(us, [id |-> id, login |-> login]),
           Append(bs, [user |-> id, current |-> 0, withdrawn |-> 0])>>
    ELSE <<us, bs>>

\* registerUser: AddUser(ctx, auth) with userUUID := uuid.New()
AddUser(p, login, F) ==
    /\ pc[p] = "new"
    /\ MayStart(p)
    /\ \E fault \in F, id \in NewIds \ {users[i].id : i \in DOMAIN users} :
        LET tables == AddUserTables(users, balanceRows, id, login, fault)
        IN  /\ Return(p, AddUserResult(users, login, fault))
            /\ users' = tables[1]
            /\ balanceRows' = tables[2]
    /\ UNCHANGED <<dbVars, cancelled, tickVars, histVars, body, healthy, now, call>>

\* AddBalance(ctx, userID, amount): UPDATE balance SET current = current + $1
\* WHERE user_id = $2, in a transaction of its own
AddBalance(u, amount, F) ==
    /\ \A k \in DOMAIN balanceRows :
            balanceRows[k].user = u => balanceRows[k].current + amount <= MaxBalance
    /\ \E fault \in F :
        LET rows == [k \in DOMAIN balanceRows |->
                        IF balanceRows[k].user = u
                        THEN CreditRow(balanceRows[k], amount)
                        ELSE balanceRows[k]]
        IN  IF fault \/ \E k \in DOMAIN rows : ~BalanceCheck(rows[k])
            THEN UNCHANGED balanceRows
            ELSE balanceRows' = rows
    /\ UNCHANGED <<dbVars, procVars, cancelled, tickVars, histVars, body, healthy,
                   now, call, users>>

NextRegister ==
    \/ \E p \in Procs, login \in Logins : AddUser(p, login, AddUserFaults)
    \/ \E u \in Users \cup NewIds, amount \in {-1, 1} : AddBalance(u, amount, BOOLEAN)

SpecRegister == Init /\ [][NextRegister]_vars

----------------------------------------------------------------------------
(* The HTTP client of NewAccrual polling one order that stays unfinished:  *)
(* every tick calls getOrderStatus for it, and the call runs inside the    *)
(* retry loop of the resty client.  The client is built without a retry    *)
(* condition, so resty repeats a request only when it ended with an error  *)
(* (no response); a response, whatever its status code, ends the call.     *)

\* what one attempt can end with: a response with a status code (429 with its
\* Retry-After in seconds, 0 for an absent header) or a transport error
Responses ==
    [code : {"200", "500", "error"}, retryAfter : {0}]
        \cup [code : {"429"}, retryAfter : 0 .. MaxRetryAfter]

\* retryFn of NewAccrual: the wait it asks resty for, 0 for "use the default"
retryFn(response) ==
    IF response.code # "429" THEN 0 ELSE response.retryAfter

\* SetRetryCount(3) without AddRetryCondition: resty retries the attempts that
\* returned an error
NeedsRetry(response) == response.code = "error"

\* the waits resty may take before the next attempt: the value of retryFn cut
\* to the client's maximal wait, or its own backoff when retryFn gives 0
SleepDurations(response) ==
    IF retryFn(response) = 0
    THEN 0 .. MaxWaitTime
    ELSE {IF retryFn(response) > MaxWaitTime THEN MaxWaitTime ELSE retryFn(response)}

\* a second passes
Tock ==
    /\ now < MaxTime
    /\ now' = now + 1
    /\ UNCHANGED <<dbVars, procVars, cancelled, tickVars, histVars, body, healthy,
                   call, regVars>>

\* case <-ticker.C: update() calls getOrderStatus for the order
StartLookup ==
    /\ call.state = "idle"
    /\ now >= call.ticked + TickPeriod
    /\ call' = [call EXCEPT !.state = "send", !.attempt = 0, !.ticked = now]
    /\ UNCHANGED <<dbVars, procVars, cancelled, tickVars, histVars, body, healthy,
                   now, regVars>>

\* request.Get(url): one attempt and what the client does with its outcome;
\* notBefore is the end of the latest Retry-After the service has asked for
Respond(response) ==
    /\ call.state = "send"
    /\ LET asked == IF response.code = "429" /\ now + response.retryAfter > call.notBefore
                    THEN now + response.retryAfter ELSE call.notBefore
       IN  IF NeedsRetry(response) /\ call.attempt < RetryCount
           THEN \E w \in SleepDurations(response) :
                    call' = [call EXCEPT !.state = "sleep", !.wake = now + w,
                                         !.resp = response.code, !.notBefore = asked]
           ELSE call' = [call EXCEPT !.state = "idle", !.resp = response.code,
                                     !.notBefore = asked]
    /\ UNCHANGED <<dbVars, procVars, cancelled, tickVars, histVars, body, healthy,
                   now, regVars>>

\* the wait is over: the next attempt of the same call
Resume ==
    /\ call.state = "sleep"
    /\ now >= call.wake
    /\ call' = [call EXCEPT !.state = "send", !.attempt = @ + 1]
    /\ UNCHANGED <<dbVars, procVars, cancelled, tickVars, histVars, body, healthy,
                   now, regVars>>

NextRetry ==
    \/ Tock
    \/ StartLookup
    \/ \E response \in Responses : Respond(response)
    \/ Resume

SpecRetry == Init /\ [][NextRetry]_vars

----------------------------------------------------------------------------
(* The handlers apiAddUserOrder and apiBalanceWithdraw in front of the     *)
(* storage: the order number / reference of the request is a string, here  *)
(* the sequence of its bytes, that isCorrectOrderNum has to accept.        *)

\* the bytes of the digits, of a blank and of the letter C
Alphabet == (ByteZero .. ByteZero + 9) \cup {32, 67}

\* "12345678903" and "1234"
Example1 == <<49, 50, 51, 52, 53, 54, 55, 56, 57, 48, 51>>
Example2 == <<49, 50, 51, 52>>

\* the request bodies: every string over Alphabet up to MaxLen bytes, and the
\* two examples
Inputs ==
    UNION {[1 .. n -> Alphabet] : n \in 0 .. MaxLen} \cup {Example1, Example2}

RECURSIVE LuhnLoop(_, _, _, _)
\* the for loop of isCorrectOrderNum from index i (counted from 1) down, with
\* d a byte: number[i] - '0' and d * 2 wrap around
LuhnLoop(number, i, isSecond, sum) ==
    IF i < 1 THEN sum
    ELSE LET d0 == (number[i] - ByteZero) % ByteRange
             d == IF isSecond THEN (d0 * 2) % ByteRange ELSE d0
         IN  LuhnLoop(number, i - 1, ~isSecond, sum + (d \div 10) + (d % 10))

isCorrectOrderNum(number) == LuhnLoop(number, Len(number), FALSE, 0) % 10 = 0

\* apiAddUserOrder: the checksum test, then storageService.AddOrder
apiAddUserOrder(p, u, F) ==
    IF isCorrectOrderNum(body)
    THEN AddOrderInsert(p, u, body, F)
    ELSE /\ pc[p] = "new"
         /\ MayStart(p)
         /\ Return(p, StatusUnprocessableEntity)
         /\ UNCHANGED <<dbVars, cancelled, tickVars, histVars, sideVars>>

\* the status code apiAddUserOrder answers with, given what its checksum test or
\* storageService.AddOrder returned
AddOrderStatusCode(r) ==
    CASE r = StatusUnprocessableEntity -> "422"
      [] r = ErrDuplicateOrder -> "409"
      [] r = ErrOrderAlreadyPlaced -> "200"
      [] r = "ok" -> "202"
      [] OTHER -> "400"

\* apiBalanceWithdraw: the checksum test, then storageService.Withdraw
apiBalanceWithdraw(p, u, s, F) ==
    IF isCorrectOrderNum(body)
    THEN WithdrawSelect(p, u, body, s, F)
    ELSE /\ pc[p] = "new"
         /\ MayStart(p)
         /\ Return(p, StatusUnprocessableEntity)
         /\ UNCHANGED <<dbVars, cancelled, tickVars, histVars, sideVars>>

\* the requests carry one of the bodies
InitAdmission == InitLedger /\ body \in Inputs

NextAdmission ==
    \/ \E p \in Procs, u \in Users : apiAddUserOrder(p, u, BOOLEAN)
    \/ \E p \in Procs : AddOrderCheck(p, BOOLEAN)
    \/ \E p \in Procs, u \in Users, s \in Sums : apiBalanceWithdraw(p, u, s, BOOLEAN)
    \/ \E p \in Procs : WithdrawWrite(p, BOOLEAN)

SpecAdmission == InitAdmission /\ [][NextAdmission]_vars

----------------------------------------------------------------------------
(* Properties                                                              *)

Terminal == {StatusProcessed, StatusInvalid}

RowsOf(rows, n) == {i \in DOMAIN rows : rows[i].num = n}

RECURSIVE SumProcessed(_, _)
\* sum of accrual over the rows of user u stored as PROCESSED
SumProcessed(rows, u) ==
    IF rows = <<>> THEN 0
    ELSE (IF Head(rows).user = u /\ Head(rows).status = StatusProcessed
          THEN Head(rows).accrual ELSE 0) + SumProcessed(Tail(rows), u)

RECURSIVE SumWithdrawals(_, _)
\* sum of the amounts of the withdrawal rows of user u
SumWithdrawals(rows, u) ==
    IF rows = <<>> THEN 0
    ELSE (IF Head(rows).user = u THEN Head(rows).sum ELSE 0)
         + SumWithdrawals(Tail(rows), u)

\* request p ends its Withdraw in this step, after the balance test
WithdrawEnds(p) == pc[p] = "w_write" /\ pc'[p] = "done"

\* what a successful Withdraw of request p does to the tables
WithdrawEffect(p) ==
    LET u == loc[p].user
        s == loc[p].sum
    IN  /\ balance' = [balance EXCEPT ![u] =
                [current |-> balance[u].current - s,
                 withdrawn |-> balance[u].withdrawn + s]]
        /\ withdrawal' = Append(withdrawal, [num |-> loc[p].num, user |-> u, sum |-> s])

\* C1: in every reachable state every user's current balance is >= 0, whatever
\* the interleaving of admissions, ticks and (concurrent) Withdraw calls.
C1_BalanceNonNegative == \A u \in Users : balance[u].current >= 0

\* a Withdraw that passed its balance test was stopped by CHECK (current >= 0):
\* a concurrent Withdraw of the same user had taken the money in between
C1_Witness == \E p \in Procs : res[p] = PgCheckBalance

\* C2: every order's accrual is added to its owner's balance exactly once: never
\* twice, and, once the order is stored as PROCESSED with an accrual to add and
\* the tick that stored it is over, not zero times.
C2_CreditedExactlyOnce ==
    \A n \in Numbers :
        /\ credited[n] <= 1
        /\ (tpc = "idle" /\ \E i \in RowsOf(orders, n) :
                orders[i].status = StatusProcessed /\ orders[i].accrual > 0)
            => credited[n] = 1

\* C3: whenever no tick and no Withdraw is in progress, for every user
\* current = (sum of accrual over the user's PROCESSED orders)
\*           - (sum of the user's recorded withdrawals).
C3_BalanceEquation ==
    (tpc = "idle" /\ \A p \in Procs : pc[p] # "w_write") =>
        \A u \in Users :
            balance[u].current = SumProcessed(orders, u) - SumWithdrawals(withdrawal, u)

\* C4: a tick is all-or-nothing: when one of its storage writes failed, none of
\* its writes has changed a stored order or balance.
C4_TickAllOrNothing == tpc = "idle" => ~(tfailed /\ twrote)

\* C5: once an order is stored as PROCESSED or INVALID, no step changes its
\* stored status or accrual.
C5_TerminalFrozen ==
    [][\A i \in DOMAIN orders :
            orders[i].status \in Terminal =>
                /\ i \in DOMAIN orders'
                /\ orders'[i].status = orders[i].status
                /\ orders'[i].accrual = orders[i].accrual]_vars

\* a tick that did not fetch a terminal order has changed another stored order
C5_Witness ==
    /\ tpc = "ubfo"
    /\ twrote
    /\ \E i \in DOMAIN orders :
        /\ orders[i].status \in Terminal
        /\ \A k \in DOMAIN torders : torders[k].num # orders[i].num

\* C6: an order number has at most one row and its owner never changes; AddOrder
\* for a number that has a row leaves the table as it is and, unless the driver
\* fails the call itself, returns ErrDuplicateOrder to any other user and
\* ErrOrderAlreadyPlaced to the owner.
C6_OrderNumberOwnedOnce ==
    [][/\ \A n \in Numbers : Cardinality(RowsOf(orders', n)) <= 1
       /\ \A i \in DOMAIN orders :
            /\ i \in DOMAIN orders'
            /\ orders'[i].num = orders[i].num
            /\ orders'[i].user = orders[i].user
       /\ \A p \in Procs :
            (pc[p] = "ao_check" /\ pc'[p] = "done") =>
                /\ orders' = orders
                /\ res'[p] # StorageError =>
                    res'[p] =
                        IF \E i \in RowsOf(orders, loc[p].num) :
                                orders[i].user = loc[p].user
                        THEN ErrOrderAlreadyPlaced
                        ELSE ErrDuplicateOrder]_vars

\* both conflicts have been answered: one to another user, one to the owner
C6_Witness ==
    \E p, q \in Procs :
        /\ res[p] = ErrDuplicateOrder
        /\ res[q] = ErrOrderAlreadyPlaced
        /\ Len(orders) = 1

\* C7 as stated, storage errors aside: a Withdraw whose amount exceeds the current
\* balance fails and changes nothing, and every other Withdraw succeeds, debits
\* the balance and records one row.
C7_Original ==
    [][\A p \in Procs :
            (WithdrawEnds(p) /\ res'[p] # StorageError) =>
                IF loc[p].sum > balance[loc[p].user].current
                THEN res'[p] # "ok" /\ UNCHANGED <<balance, withdrawal>>
                ELSE res'[p] = "ok" /\ WithdrawEffect(p)]_vars

\* C7 amended: a Withdraw passes its balance test only if the amount does not
\* exceed the balance it read; a Withdraw that fails changes nothing; one that
\* succeeds has 0 <= amount <= current and a reference without a row, debits
\* current and credits withdrawn by the amount and adds exactly one row; after
\* the balance test it fails only on a used reference, a negative amount, a
\* balance lowered below the amount in the meantime, or a storage error.
C7_WithdrawOutcome ==
    [][\A p \in Procs :
        /\ (pc[p] = "new" /\ pc'[p] = "w_write") =>
                /\ loc'[p].sum <= balance[loc'[p].user].current
                /\ UNCHANGED <<balance, withdrawal>>
        /\ (pc[p] = "new" /\ pc'[p] = "done") => UNCHANGED <<balance, withdrawal>>
        /\ WithdrawEnds(p) =>
            LET cur == balance[loc[p].user].current
                used == RowsOf(withdrawal, loc[p].num) # {}
            IN  CASE res'[p] = "ok" ->
                        /\ 0 <= loc[p].sum /\ loc[p].sum <= cur /\ ~used
                        /\ WithdrawEffect(p)
                  [] res'[p] = PgUniqueViolation ->
                        used /\ UNCHANGED <<balance, withdrawal>>
                  [] res'[p] = PgCheckSum ->
                        loc[p].sum < 0 /\ UNCHANGED <<balance, withdrawal>>
                  [] res'[p] = PgCheckBalance ->
                        cur < loc[p].sum /\ UNCHANGED <<balance, withdrawal>>
                  [] OTHER ->
                        res'[p] = StorageError /\ UNCHANGED <<balance, withdrawal>>]_vars

\* one Withdraw was refused for lack of balance, another one paid out
C7_Witness ==
    /\ \E p \in Procs : res[p] = ErrNotEnoughBalance
    /\ \E i \in DOMAIN withdrawal : withdrawal[i].sum > 0

\* C8: a reference has at most one withdrawal row, and a Withdraw whose reference
\* already has a row fails, adds no row and leaves every balance as it is.
C8_ReferenceWithdrawnOnce ==
    [][/\ \A n \in Numbers : Cardinality(RowsOf(withdrawal', n)) <= 1
       /\ \A p \in Procs :
            (WithdrawEnds(p) /\ RowsOf(withdrawal, loc[p].num) # {}) =>
                /\ res'[p] # "ok"
                /\ UNCHANGED <<balance, withdrawal>>]_vars

\* a Withdraw was refused on a reference that another Withdraw had used
C8_Witness == \E p \in Procs : res[p] = PgUniqueViolation

\* C9: no update of a balance row is lost: current is the sum of the committed
\* credits minus the sum of the committed debits, withdrawn the sum of the debits.
C9_NoLostUpdate ==
    \A u \in Users :
        /\ balance[u].current = creditSum[u] - debitSum[u]
        /\ balance[u].withdrawn = debitSum[u]

\* a Withdraw has committed over a credit that came after its SELECT
C9_Witness == raced

AllowedTransitions ==
    {<<StatusNew, StatusProcessing>>, <<StatusNew, StatusInvalid>>,
     <<StatusNew, StatusProcessed>>, <<StatusProcessing, StatusInvalid>>,
     <<StatusProcessing, StatusProcessed>>}

\* C10: a stored status changes only along NEW->PROCESSING, NEW->INVALID,
\* NEW->PROCESSED, PROCESSING->INVALID, PROCESSING->PROCESSED, and a row is
\* created with status NEW.
C10_StatusTransitions ==
    [][\A i \in DOMAIN orders' :
            IF i \in DOMAIN orders
            THEN \/ orders'[i].status = orders[i].status
                 \/ <<orders[i].status, orders'[i].status>> \in AllowedTransitions
            ELSE orders'[i].status = StatusNew]_vars

\* one order has moved to PROCESSING and another one to INVALID
C10_Witness ==
    \E i, j \in DOMAIN orders :
        /\ orders[i].status = StatusProcessing
        /\ orders[j].status = StatusInvalid

----------------------------------------------------------------------------
(* Properties of one tick                                                  *)

\* the row of order number n (every order of a tick has one)
Row(rows, n) == rows[CHOOSE i \in RowsOf(rows, n) : TRUE]

Unfinished == {StatusNew, StatusProcessing}

\* the statuses of the accrual service that have an internal counterpart
Recognised == {StatusRegistered, StatusProcessing, StatusInvalid, StatusProcessed}

ExternalToInternal ==
    StatusRegistered :> StatusProcessing @@ StatusProcessing :> StatusProcessing
    @@ StatusInvalid :> StatusInvalid @@ StatusProcessed :> StatusProcessed

\* the updater goroutine takes a step of the apply loop / of the balance update
ApplyStep == tpc = "apply" /\ (ti' # ti \/ tpc' # tpc)
BalanceStep == tpc = "ubfo" /\ tpc' = "idle"
\* a tick starts its lookups
TickStarts == tpc # "lookup" /\ tpc' = "lookup"

\* the tick that starts fetches every order stored as NEW or PROCESSING
FetchesUnfinished ==
    TickStarts =>
        \A i \in DOMAIN orders :
            orders[i].status \in Unfinished =>
                \E k \in DOMAIN torders' : torders'[k].num = orders[i].num

Unmapped(i) == tinfo[i] \notin {Pending, Nil} /\ tinfo[i].status \notin Recognised

C13_FailedLookupSkipped ==
    [][/\ \A i \in DOMAIN tinfo :
            tinfo[i] = Nil =>
                LET n == torders[i].num
                IN  /\ Row(orders', n) = Row(orders, n)
                    /\ Row(orders, n).status \in Unfinished
                    /\ credited'[n] = credited[n]
                    /\ \A k \in DOMAIN tbal' : tbal'[k].num # n
       /\ (ApplyStep /\ tinfo[ti] = Nil) =>
            /\ UNCHANGED <<orders, balance, tbal, tfailed, twrote>>
            /\ IF ti < Len(torders) THEN ti' = ti + 1 ELSE tpc' = "ubfo"
       /\ FetchesUnfinished]_vars

\* a tick with a failed lookup has changed the row of another order
C13_Witness ==
    /\ tpc = "ubfo"
    /\ twrote
    /\ \E i \in DOMAIN tinfo : tinfo[i] = Nil

\* C14: a tick starts only from the idle loop; it starts one lookup per order it
\* fetched, each for the order of its own index; while a lookup is pending the
\* updater writes nothing; a result is stored at the index of its lookup.
C14_SingleFlightBarrier ==
    /\ [](/\ DOMAIN tasked = DOMAIN torders
          /\ DOMAIN tinfo = DOMAIN torders
          /\ \A i \in DOMAIN torders : tasked[i] = torders[i].num
          /\ (tpc \in {"apply", "ubfo"} => \A i \in DOMAIN tinfo : tinfo[i] # Pending))
    /\ [][/\ TickStarts =>
                /\ tpc = "idle" /\ torders = <<>> /\ tinfo = <<>>
                /\ torders' = GetUnfinishedOrders(orders)
                /\ \A i \in DOMAIN tinfo' : tinfo'[i] = Pending
          /\ (\E i \in DOMAIN tinfo : tinfo[i] = Pending) =>
                /\ \A i \in DOMAIN orders : orders'[i] = orders[i]
                /\ UNCHANGED <<tbal, tfailed, twrote, credited, creditSum>>
                /\ \A i \in DOMAIN tinfo :
                        tinfo[i] # Pending => tinfo'[i] = tinfo[i]]_vars

\* two lookups of one tick: one has finished, the other one is still pending
C14_Witness ==
    /\ tpc = "lookup"
    /\ \E i, j \in DOMAIN tinfo : tinfo[i] = Pending /\ tinfo[j] \notin {Pending, Nil}

----------------------------------------------------------------------------
(* Properties of the loop                                                  *)

C16_StopTerminates ==
    /\ cancelled ~> (tpc = "stopped")
    /\ [][(cancelled /\ tpc \in {"idle", "stopped"}) =>
            /\ tpc' \in {"idle", "stopped"}
            /\ tpc = "stopped" => tpc' = "stopped"
            /\ \A i \in DOMAIN orders : orders'[i] = orders[i]
            /\ UNCHANGED <<balance, torders, tinfo, tbal, tasked, credited,
                           creditSum>>]_vars

\* the loop has ended and has left an unfinished order behind
C16_Witness == tpc = "stopped" /\ GetUnfinishedOrders(orders) # <<>>

----------------------------------------------------------------------------
(* Properties of the HTTP client                                           *)

\* an attempt of a lookup is made in this step
Attempt == call.state = "send" /\ call'.state # "send"

\* C17: no lookup attempt is made before the end of a Retry-After the service
\* has asked for; the call answered with 429 and Retry-After N waits N seconds
\* and is then repeated; a call makes at most 3 retries.
C17_RetryAfterHonoured ==
    [][/\ Attempt => now >= call.notBefore
       /\ (Attempt /\ call'.resp = "429" /\ call'.notBefore > now
                   /\ call.attempt < RetryCount) =>
            call'.state = "sleep" /\ call'.wake = call'.notBefore
       /\ call'.attempt <= RetryCount]_vars

----------------------------------------------------------------------------
(* Properties of the validation                                            *)

RECURSIVE LuhnTotal(_, _)
\* the Luhn total of a string of digits: from the right, every second digit
\* doubled, and 9 taken off a double above 9
LuhnTotal(digits, second) ==
    IF digits = <<>> THEN 0
    ELSE LET v == digits[Len(digits)] - 48
             w == IF ~second THEN v ELSE IF 2 * v > 9 THEN 2 * v - 9 ELSE 2 * v
         IN  w + LuhnTotal(SubSeq(digits, 1, Len(digits) - 1), ~second)

\* the checksum rule: decimal digits only, Luhn total a multiple of 10
LuhnRule(str) ==
    /\ \A i \in DOMAIN str : str[i] \in 48 .. 57
    /\ LuhnTotal(str, FALSE) % 10 = 0

\* C18: a request whose number or reference fails the checksum rule is answered
\* 422 and reaches no storage operation: the tables stay as they are.
C18_ValidationPrecedesStorage ==
    [][\A p \in Procs :
            (pc[p] = "new" /\ pc'[p] # "new" /\ ~LuhnRule(body)) =>
                /\ pc'[p] = "done"
                /\ res'[p] = StatusUnprocessableEntity
                /\ UNCHANGED dbVars]_vars

\* C19: isCorrectOrderNum accepts exactly the strings of decimal digits whose
\* Luhn total is a multiple of 10; it accepts "12345678903" and rejects "1234".
C19_LuhnAgreement ==
    /\ isCorrectOrderNum(body) <=> LuhnRule(body)
    /\ isCorrectOrderNum(Example1)
    /\ ~isCorrectOrderNum(Example2)

----------------------------------------------------------------------------
(* Properties of the recovering loop                                       *)

\* order n has reached its final stored state: INVALID or PROCESSED, and an
\* accrual of a PROCESSED order has been added to the balance
Settled(n) ==
    /\ RowsOf(orders, n) # {}
    /\ Row(orders, n).status \in Terminal
    /\ (Row(orders, n).status = StatusProcessed /\ Row(orders, n).accrual > 0)
            => credited[n] = 1

\* C20: a stored order is fetched by the tick that starts next, and when ticks
\* keep firing, storage calls eventually succeed and the service eventually
\* answers INVALID or PROCESSED, every stored order eventually is INVALID or
\* PROCESSED, with the accrual of a PROCESSED order added to the balance.
C20_Convergence ==
    /\ [][FetchesUnfinished]_vars
    /\ \A n \in Numbers : (RowsOf(orders, n) # {}) ~> Settled(n)

----------------------------------------------------------------------------
(* Properties of the balances                                              *)

RECURSIVE Reported(_, _, _)
\* the accruals the accrual service reported as PROCESSED, in the running tick,
\* for the orders of user u
Reported(os, infos, u) ==
    IF os = <<>> THEN 0
    ELSE (IF Head(os).user = u /\ Head(infos).status = StatusProcessed
          THEN Head(infos).accrual ELSE 0) + Reported(Tail(os), Tail(infos), u)

\* the updater goroutine takes a step of the running tick
TickStep == tpc' # tpc \/ ti' # ti \/ tinfo' # tinfo

\* C21: a tick changes balances only by adding, for every user, the accruals of
\* the orders of that user reported PROCESSED in it: an order reported REGISTERED,
\* PROCESSING or INVALID adds nothing, an order reported PROCESSED with accrual a
\* adds exactly a to its owner, no withdrawn amount changes, and a tick that
\* fetched no order changes nothing.
C21_TickBalanceFrame ==
    [][/\ (TickStep /\ ~BalanceStep) => UNCHANGED balance
       /\ BalanceStep =>
            \A u \in Users :
                /\ balance'[u].current =
                        balance[u].current + Reported(torders, tinfo, u)
                /\ balance'[u].withdrawn = balance[u].withdrawn
       /\ (tpc = "idle" /\ GetUnfinishedOrders(orders) = <<>> /\ UNCHANGED procVars)
            => UNCHANGED <<dbVars, tickVars>>]_vars

\* C22: every recorded withdrawal has an amount above 0, and a Withdraw of 0 or
\* of a negative amount adds no withdrawal row and leaves every balance as it is.
C22_WithdrawalPositive ==
    [][/\ \A i \in DOMAIN withdrawal' : withdrawal'[i].sum > 0
       /\ \A p \in Procs :
            (WithdrawEnds(p) /\ loc[p].sum <= 0) =>
                UNCHANGED <<balance, withdrawal>>]_vars

C24_InsufficientReported ==
    [][\A p \in Procs :
        /\ (pc[p] = "new" /\ pc'[p] = "w_write") =>
                loc'[p].sum <= balance[loc'[p].user].current
        /\ (WithdrawEnds(p) /\ loc[p].sum > balance[loc[p].user].current) =>
                /\ UNCHANGED <<balance, withdrawal>>
                /\ res'[p] \in {ErrNotEnoughBalance, StorageError, PgUniqueViolation}
                /\ (res'[p] = PgUniqueViolation =>
                        RowsOf(withdrawal, loc[p].num) # {})]_vars

----------------------------------------------------------------------------
(* Properties of a tick with an unanswered lookup                          *)

\* C25: every tick that has started comes back to the select, whatever its
\* lookups do; the answer of a lookup is applied, whatever the other lookups of
\* the tick do; and while unfinished orders are stored a later tick starts.
C25_TickCompletes ==
    /\ (tpc # "idle") ~> (tpc = "idle")
    /\ \A i \in 1 .. Cardinality(Numbers) :
            (tpc = "lookup" /\ i \in DOMAIN tinfo /\ tinfo[i].status \in Recognised)
                ~> (tpc = "apply" /\ ti = i)
    /\ (tpc = "idle" /\ GetUnfinishedOrders(orders) # <<>>) ~> (tpc = "lookup")

----------------------------------------------------------------------------
(* Properties of the stored accrual                                        *)

\* C27: in every reachable state an order stored as NEW, PROCESSING or INVALID
\* has the stored accrual 0, whatever accrual the service sent with its answers.
C27_AccrualOnlyProcessed ==
    \A i \in DOMAIN orders :
        orders[i].status \in {StatusNew, StatusProcessing, StatusInvalid} =>
            orders[i].accrual = 0

\* a tick has stored INVALID for one order and PROCESSING for another one, both
\* reported with an accrual above 0
C27_Witness ==
    /\ tpc = "ubfo"
    /\ \E i, j \in DOMAIN tinfo :
        /\ tinfo[i].status = StatusInvalid /\ tinfo[i].accrual > 0
        /\ Row(orders, torders[i].num).status = StatusInvalid
        /\ tinfo[j].status = StatusRegistered /\ tinfo[j].accrual > 0
        /\ Row(orders, torders[j].num).status = StatusProcessing

----------------------------------------------------------------------------
(* Properties of the admission endpoint                                    *)

\* request p, an order admission, is answered in this step (not by a driver
\* error)
AdmissionEnds(p) ==
    /\ pc[p] \in {"new", "ao_check"}
    /\ pc'[p] = "done"
    /\ res'[p] \notin {StorageError, ErrNotEnoughBalance}

\* C28: the answer of the order admission follows from the number and the stored
\* orders: 422 and no change for a number that fails the checksum rule; 202 and
\* one new row with status NEW for a valid number without a row; 200 and no
\* change for a number the caller has registered; 409 and no change for a number
\* another user has registered.
C28_AdmissionOutcome ==
    [][\A p \in Procs :
        /\ (pc[p] = "new" /\ pc'[p] # "new" /\ ~LuhnRule(body)) =>
                /\ pc'[p] = "done"
                /\ AddOrderStatusCode(res'[p]) = "422"
                /\ UNCHANGED dbVars
        /\ (AdmissionEnds(p) /\ LuhnRule(body)) =>
                IF RowsOf(orders, body) = {}
                THEN /\ AddOrderStatusCode(res'[p]) = "202"
                     /\ \E u \in Users : orders' = Append(orders, NewOrderRow(u, body))
                     /\ UNCHANGED <<balance, withdrawal>>
                ELSE /\ pc[p] = "ao_check"
                     /\ AddOrderStatusCode(res'[p]) =
                            IF Row(orders, body).user = loc[p].user
                            THEN "200" ELSE "409"
                     /\ UNCHANGED dbVars]_vars

----------------------------------------------------------------------------
(* Properties of the registration                                          *)

\* the balance rows of user id
BalanceRowsOf(id) == {k \in DOMAIN balanceRows : balanceRows[k].user = id}

\* C26: every user has exactly one balance row and every balance row a user; a
\* registration that succeeds adds one user and one balance row of that user with
\* current = 0 and withdrawn = 0; a registration that fails (duplicate login,
\* storage error) adds neither; no step removes a user or a balance row or gives
\* a balance row to another user.
C26_RegistrationAtomic ==
    /\ [](/\ \A i \in DOMAIN users : Cardinality(BalanceRowsOf(users[i].id)) = 1
          /\ \A k \in DOMAIN balanceRows :
                \E i \in DOMAIN users : users[i].id = balanceRows[k].user)
    /\ [][/\ \A p \in Procs :
                (pc[p] = "new" /\ pc'[p] = "done") =>
                    IF res'[p] = "ok"
                    THEN /\ Len(users') = Len(users) + 1
                         /\ balanceRows' = Append(balanceRows,
                                [user |-> users'[Len(users')].id,
                                 current |-> 0, withdrawn |-> 0])
                    ELSE UNCHANGED <<users, balanceRows>>
          /\ \A i \in DOMAIN users : i \in DOMAIN users' /\ users'[i] = users[i]
          /\ \A k \in DOMAIN balanceRows :
                /\ k \in DOMAIN balanceRows'
                /\ balanceRows'[k].user = balanceRows[k].user]_vars

\* one registration has succeeded, one was refused as a duplicate, one failed
\* with a storage error, and the balance of the new user has been credited
C26_Witness ==
    /\ \E p, q, r \in Procs :
        res[p] = "ok" /\ res[q] = ErrDuplicateUser /\ res[r] = StorageError
    /\ Len(users) = Len(Registered) + 1
    /\ balanceRows[Len(balanceRows)].current > 0

====
